---- MODULE Spec2Model ----
(***************************************************************************)
(* Model of the Explore plugin's ToolExplorerContent view                  *)
(* (workspaces/explore/plugins/explore/src/components/ToolExplorerContent/ *)
(* ToolExplorerContent.tsx): two filter selections kept in component state *)
(* and written to the URL, and two useAsyncFn loaders (the filtered tool   *)
(* list and the filter options) relaunched by one effect.                  *)
(*                                                                         *)
(* Library behaviour the component relies on, as modelled here:            *)
(*  - react-use useAsyncFn: the callback increments lastCallId, sets       *)
(*    loading (keeping the previous value/error) unless the state captured *)
(*    by the memoised callback was already loading, and on settlement      *)
(*    replaces the whole state by {value, loading: false} or               *)
(*    {error, loading: false}, but only if its call id is still the last.  *)
(*  - react-router setSearchParams(init, {replace: true}): the new query   *)
(*    is createSearchParams(init) alone (nothing of the previous query is  *)
(*    merged in) and it replaces the current history entry.                *)
(*  - React: a handler's state updates, the re-render and the effect the   *)
(*    re-render schedules run before any other event is handled, so a      *)
(*    handler together with the effect it triggers is one step.            *)
(***************************************************************************)
EXTENDS Naturals, Sequences, FiniteSets, TLC

\* ---- bounds of the model ----
MaxCalls == 2      \* calls of each loader (the mount's call included)
MaxTools == 2      \* tools in a catalog list the options are computed from

\* ---- optional JavaScript values: undefined is None, a present value Some(x) ----
None == <<>>
Some(x) == <<x>>

\* ---- values ----
\* The selections the filter widgets hand to the handlers, and the initial URL may
\* carry: none, one value, several values.
TagSelections == {<<>>, <<"seo">>, <<"web", "seo">>}
LifecycleSelections == {<<>>, <<"experimental">>}

\* Tool descriptors the catalog may return (tags and lifecycle are optional).
WebTool == [title |-> "Web tool", tags |-> Some(<<"web", "seo">>), lifecycle |-> None]
ExperimentalTool == [title |-> "Experimental tool", tags |-> None, lifecycle |-> Some("experimental")]

\* What a getTools call may resolve with: no response object at all, or a tools list.
Responses == {None, Some(<<>>), Some(<<WebTool, ExperimentalTool>>)}

\* The tool lists of at most MaxTools tools the unfiltered catalog may hold; a tool's
\* tags may be missing, empty or repeat a value, and it may have no lifecycle.
CatalogTags ==
    {None, Some(<<>>), Some(<<"web">>), Some(<<"web", "seo">>), Some(<<"seo", "web">>),
     Some(<<"web", "web">>)}
CatalogLifecycles == {None, Some("experimental"), Some("production")}
CatalogTools ==
    {[title |-> "Tool", tags |-> t, lifecycle |-> l] : t \in CatalogTags, l \in CatalogLifecycles}
CatalogResponses ==
    {None} \cup {Some(list) : list \in UNION {[1..n -> CatalogTools] : n \in 0..MaxTools}}

\* ---- URL query: a sequence of <<key, value>> pairs ----
createSearchParamsDropsLast(key, value) ==
    [i \in 1..(IF Len(value) > 0 THEN Len(value) - 1 ELSE 0) |-> <<key, value[i]>>]

\* createSearchParams({[key]: value}) for an array value: one pair per element.
createSearchParams(key, value) == [i \in 1..Len(value) |-> <<key, value[i]>>]

\* URLSearchParams.getAll(key): the values of the pairs under key, in order.
getAll(params, key) ==
    LET m == SelectSeq(params, LAMBDA p : p[1] = key)
    IN  [i \in 1..Len(m) |-> m[i][2]]

has(params, key) == \E i \in 1..Len(params) : params[i][1] = key

\* URLs the view may be opened with.
InitialQueries ==
    {createSearchParams("tags", t) \o createSearchParams("lifecycle", l) :
        t \in TagSelections, l \in LifecycleSelections}

\* ---- the option sets computed from the unfiltered list ----
RECURSIVE Flat(_)
Flat(ss) == IF ss = <<>> THEN <<>> ELSE Head(ss) \o Flat(Tail(ss))

RECURSIVE InsertionOrderKeepsLast(_, _)
InsertionOrderKeepsLast(xs, seen) ==
    IF xs = <<>> THEN <<>>
    ELSE IF \E i \in 2..Len(xs) : xs[i] = Head(xs)
         THEN InsertionOrderKeepsLast(Tail(xs), seen)
         ELSE <<Head(xs)>> \o InsertionOrderKeepsLast(Tail(xs), seen)

RECURSIVE InsertionOrder(_, _)
\* new Set(xs) followed by Array.from: first occurrences, in order.
InsertionOrder(xs, seen) ==
    IF xs = <<>> THEN <<>>
    ELSE IF Head(xs) \in seen THEN InsertionOrder(Tail(xs), seen)
    ELSE <<Head(xs)>> \o InsertionOrder(Tail(xs), seen \cup {Head(xs)})

uniqueTags(allTools) ==
    InsertionOrder(Flat([i \in 1..Len(allTools) |->
        IF allTools[i].tags = None THEN <<>> ELSE allTools[i].tags[1]]), {})

uniqueLifecycle(allTools) ==
    InsertionOrder(Flat([i \in 1..Len(allTools) |-> allTools[i].lifecycle]), {})

\* The value fetchTagsAndLifeCycles resolves with, given getTools' response.
computeOptions(response) ==
    IF response = None
    THEN [tags |-> <<>>, lifecycles |-> <<>>]
    ELSE [tags |-> uniqueTags(response[1]), lifecycles |-> uniqueLifecycle(response[1])]

\* ---- useAsyncFn ----
initialState == [loading |-> FALSE, value |-> None, error |-> None]

VARIABLES
    history,                 \* browser history entries (queries), the last is current (l. 74, 85, 90)
    filteredTags,            \* useState: selected tags (l. 76-78)
    filteredLifecycle,       \* useState: selected lifecycle values (l. 79-81)
    tools,                   \* useAsyncFn state of fetchTools (l. 93)
    uniqueTagsAndLifecycle,  \* useAsyncFn state of fetchTagsAndLifeCycles (l. 101)
    lastCallId,              \* useAsyncFn's lastCallId ref, per loader
    inflight,                \* getTools promises not yet settled (l. 95, 103)
    mounted,                 \* the first render's effect has run (l. 122-125)
    settled                  \* history variable, per loader: the call whose outcome
                             \* its state holds

vars == <<history, filteredTags, filteredLifecycle, tools, uniqueTagsAndLifecycle,
          lastCallId, inflight, mounted, settled>>

Loaders == {"tools", "options"}

searchParams == history[Len(history)]

NoCall ==
    [callId |-> 0, request |-> None, outcome |-> "none", response |-> None,
     result |-> None, before |-> initialState, stale |-> FALSE]

Init ==
    /\ \E q \in InitialQueries :
        /\ history = <<q>>
        /\ filteredTags = getAll(q, "tags")
        /\ filteredLifecycle = getAll(q, "lifecycle")
    /\ tools = initialState
    /\ uniqueTagsAndLifecycle = initialState
    /\ lastCallId = [l \in Loaders |-> 0]
    /\ inflight = {}
    /\ mounted = FALSE
    /\ settled = [l \in Loaders |-> NoCall]

\* ---- useAsyncFn (react-use), one instance per loader ----
isCurrentAlways(callId, last) == TRUE

isCurrentFirstOnly(callId, last) == callId = 1

\* The settlement handlers' guard `callId === lastCallId.current`.
isCurrent(callId, last) == callId = last

asyncFnCallResets(state, closureLoading) ==
    IF ~closureLoading THEN [loading |-> TRUE, value |-> None, error |-> None] ELSE state

\* callback(): `if (!state.loading) set(prev => ({...prev, loading: true}))`, where
\* state is the one the memoised callback closed over.
asyncFnCall(state, closureLoading) ==
    IF ~closureLoading THEN [state EXCEPT !.loading = TRUE] ELSE state

asyncFnResolvedKeepsError(state, callId, last, value) ==
    IF isCurrent(callId, last) THEN [state EXCEPT !.loading = FALSE, !.value = value]
    ELSE state

\* then(value => ... set({value, loading: false})): the whole state is replaced.
asyncFnResolved(state, callId, last, value) ==
    IF isCurrent(callId, last)
    THEN [loading |-> FALSE, value |-> value, error |-> None]
    ELSE state

asyncFnRejectedKeepsValue(state, callId, last, error) ==
    IF isCurrent(callId, last) THEN [state EXCEPT !.loading = FALSE, !.error = Some(error)]
    ELSE state

\* then(..., error => ... set({error, loading: false})): the whole state is replaced.
asyncFnRejected(state, callId, last, error) ==
    IF isCurrent(callId, last)
    THEN [loading |-> FALSE, value |-> None, error |-> Some(error)]
    ELSE state

\* The call a settlement leaves recorded as the origin of the loader's state.
\* (response: what getTools fulfilled with; result: what the async function returned;
\* before: the loader's state the outcome replaced; stale: an outcome of this loader
\* has been dropped by the guard.)
settle(loader, state, f, outcome, response, result) ==
    IF isCurrent(f.callId, lastCallId[loader])
    THEN [settled EXCEPT ![loader] =
            [callId |-> f.callId, request |-> f.request, outcome |-> outcome,
             response |-> response, result |-> result, before |-> state,
             stale |-> @.stale]]
    ELSE [settled EXCEPT ![loader].stale = TRUE]

\* ---- the two fetches ----
\* exploreApi.getTools({filter: {tags: filteredTags, lifecycle: filteredLifecycle}})
fetchToolsRequest(tags, lifecycle) == Some([tags |-> tags, lifecycle |-> lifecycle])

fetchTagsAndLifeCyclesRequestFiltered ==
    Some([tags |-> filteredTags, lifecycle |-> filteredLifecycle])

\* exploreApi.getTools(): no argument.
fetchTagsAndLifeCyclesRequest == None

Call(loader, id, request) == [loader |-> loader, callId |-> id, request |-> request]

useEffectToolsOnly(tags, lifecycle) ==
    /\ lastCallId' = [lastCallId EXCEPT !["tools"] = @ + 1]
    /\ tools' = asyncFnCall(tools, tools.loading)
    /\ UNCHANGED uniqueTagsAndLifecycle
    /\ inflight' = inflight \cup
         {Call("tools", lastCallId["tools"] + 1, fetchToolsRequest(tags, lifecycle))}

\* useEffect(() => { fetchTools(); fetchTagsAndLifeCycles(); }, [...]) in the render
\* whose selections are tags and lifecycle. fetchTools is re-memoised in every render
\* whose selections changed, so it closes over the current tools state;
\* fetchTagsAndLifeCycles is memoised once, over the initial (not loading) state.
useEffect(tags, lifecycle) ==
    /\ lastCallId' = [l \in Loaders |-> lastCallId[l] + 1]
    /\ tools' = asyncFnCall(tools, tools.loading)
    /\ uniqueTagsAndLifecycle' = asyncFnCall(uniqueTagsAndLifecycle, initialState.loading)
    /\ inflight' = inflight \cup
         {Call("tools", lastCallId["tools"] + 1, fetchToolsRequest(tags, lifecycle)),
          Call("options", lastCallId["options"] + 1, fetchTagsAndLifeCyclesRequest)}

CanCall == \A l \in Loaders : lastCallId[l] < MaxCalls

\* ---- navigation ----
navigatePush(query) == Append(history, query)

\* navigate("?" + query, {replace: true}): the current entry is replaced.
navigateReplace(query) == [history EXCEPT ![Len(history)] = query]

\* setSearchParams({[key]: value}, {replace: true})
setSearchParams(key, value) == navigateReplace(createSearchParams(key, value))

\* ---- steps ----
MountEmptyFilter ==
    /\ ~mounted
    /\ mounted' = TRUE
    /\ useEffect(<<>>, <<>>)
    /\ UNCHANGED <<history, filteredTags, filteredLifecycle, settled>>

MountRewritesUrl ==
    /\ ~mounted
    /\ mounted' = TRUE
    /\ useEffect(filteredTags, filteredLifecycle)
    /\ history' = setSearchParams("tags", filteredTags)
    /\ UNCHANGED <<filteredTags, filteredLifecycle, settled>>

\* First render's effect.
Mount ==
    /\ ~mounted
    /\ mounted' = TRUE
    /\ useEffect(filteredTags, filteredLifecycle)
    /\ UNCHANGED <<history, filteredTags, filteredLifecycle, settled>>

handleTagsChange(value) ==
    /\ mounted
    /\ CanCall
    /\ filteredTags' = value
    /\ history' = setSearchParams("tags", value)
    /\ useEffect(value, filteredLifecycle)
    /\ UNCHANGED <<filteredLifecycle, mounted, settled>>

handleLifecycleChange(value) ==
    /\ mounted
    /\ CanCall
    /\ filteredLifecycle' = value
    /\ history' = setSearchParams("lifecycle", value)
    /\ useEffect(filteredTags, value)
    /\ UNCHANGED <<filteredTags, mounted, settled>>

\* A getTools promise of fetchTools fulfils with response; fetchTools returns
\* response?.tools.
ResolveTools(f, response) ==
    /\ f \in inflight
    /\ f.loader = "tools"
    /\ tools' = asyncFnResolved(tools, f.callId, lastCallId["tools"], response)
    /\ settled' = settle("tools", tools, f, "resolved", response, response)
    /\ inflight' = inflight \ {f}
    /\ UNCHANGED <<history, filteredTags, filteredLifecycle, uniqueTagsAndLifecycle,
                   lastCallId, mounted>>

RejectToolsRetries(f) ==
    /\ f \in inflight
    /\ f.loader = "tools"
    /\ tools' = asyncFnRejected(tools, f.callId, lastCallId["tools"], "Error")
    /\ settled' = settle("tools", tools, f, "rejected", None, None)
    /\ IF f.callId = lastCallId["tools"] /\ lastCallId["tools"] < MaxCalls
       THEN /\ lastCallId' = [lastCallId EXCEPT !["tools"] = @ + 1]
            /\ inflight' = (inflight \ {f}) \cup
                  {Call("tools", lastCallId["tools"] + 1, f.request)}
       ELSE /\ inflight' = inflight \ {f}
            /\ UNCHANGED lastCallId
    /\ UNCHANGED <<history, filteredTags, filteredLifecycle, uniqueTagsAndLifecycle,
                   mounted>>

RejectToolsFailsBoth(f) ==
    /\ f \in inflight
    /\ f.loader = "tools"
    /\ tools' = asyncFnRejected(tools, f.callId, lastCallId["tools"], "Error")
    /\ uniqueTagsAndLifecycle' =
         asyncFnRejected(uniqueTagsAndLifecycle, f.callId, lastCallId["tools"], "Error")
    /\ settled' = settle("tools", tools, f, "rejected", None, None)
    /\ inflight' = inflight \ {f}
    /\ UNCHANGED <<history, filteredTags, filteredLifecycle, lastCallId, mounted>>

RejectTools(f) ==
    /\ f \in inflight
    /\ f.loader = "tools"
    /\ tools' = asyncFnRejected(tools, f.callId, lastCallId["tools"], "Error")
    /\ settled' = settle("tools", tools, f, "rejected", None, None)
    /\ inflight' = inflight \ {f}
    /\ UNCHANGED <<history, filteredTags, filteredLifecycle, uniqueTagsAndLifecycle,
                   lastCallId, mounted>>

\* A getTools promise of fetchTagsAndLifeCycles fulfils with response.
ResolveOptions(f, response) ==
    /\ f \in inflight
    /\ f.loader = "options"
    /\ uniqueTagsAndLifecycle' =
         asyncFnResolved(uniqueTagsAndLifecycle, f.callId, lastCallId["options"],
                         Some(computeOptions(response)))
    /\ settled' = settle("options", uniqueTagsAndLifecycle, f, "resolved", response,
                          Some(computeOptions(response)))
    /\ inflight' = inflight \ {f}
    /\ UNCHANGED <<history, filteredTags, filteredLifecycle, tools, lastCallId, mounted>>

RejectOptions(f) ==
    /\ f \in inflight
    /\ f.loader = "options"
    /\ uniqueTagsAndLifecycle' =
         asyncFnRejected(uniqueTagsAndLifecycle, f.callId, lastCallId["options"], "Error")
    /\ settled' = settle("options", uniqueTagsAndLifecycle, f, "rejected", None, None)
    /\ inflight' = inflight \ {f}
    /\ UNCHANGED <<history, filteredTags, filteredLifecycle, tools, lastCallId, mounted>>

Next ==
    \/ Mount
    \/ \E value \in TagSelections : handleTagsChange(value)
    \/ \E value \in LifecycleSelections : handleLifecycleChange(value)
    \/ \E f \in inflight, response \in Responses : ResolveTools(f, response)
    \/ \E f \in inflight : RejectTools(f)
    \/ \E f \in inflight, response \in Responses : ResolveOptions(f, response)
    \/ \E f \in inflight : RejectOptions(f)

Spec == Init /\ [][Next]_vars

\* Some fetch in flight settles.
Settle ==
    \E f \in inflight :
        \/ \E response \in Responses : ResolveTools(f, response)
        \/ RejectTools(f)
        \/ \E response \in Responses : ResolveOptions(f, response)
        \/ RejectOptions(f)

\* The first effect runs, and every getTools promise is eventually settled.
FairSpec == Spec /\ WF_vars(Mount) /\ WF_vars(Settle)

\* The options computation alone: the first options fetch resolves with any catalog
\* list.
NextOptions ==
    \/ Mount
    \/ \E f \in inflight, response \in CatalogResponses : ResolveOptions(f, response)

SpecOptions == Init /\ [][NextOptions]_vars

\* ---- what the render shows ----
ProgressBoth == tools.loading /\ uniqueTagsAndLifecycle.loading

\* {(tools.loading || uniqueTagsAndLifecycle.loading) && <Progress />}
Progress == tools.loading \/ uniqueTagsAndLifecycle.loading

\* {(tools.error || uniqueTagsAndLifecycle.error) && <WarningPanel title="Failed to load tools" />}
FailedToLoadTools == tools.error # None \/ uniqueTagsAndLifecycle.error # None

\* {tools.value && tools.value.length === 0 && <WarningPanel title="No tools found" />}
NoToolsFound == tools.value # None /\ Len(tools.value[1]) = 0

BodyNonEmptyOnly == tools.value # None /\ Len(tools.value[1]) > 0

\* {tools.value && <Body tools={tools.value} />}: an empty array is truthy.
Body == tools.value # None

\* options={uniqueTagsAndLifecycle.value?.tags ?? []}
tagOptions ==
    IF uniqueTagsAndLifecycle.value = None THEN <<>>
    ELSE uniqueTagsAndLifecycle.value[1].tags

\* options={uniqueTagsAndLifecycle.value?.lifecycles ?? []}
lifecycleOptions ==
    IF uniqueTagsAndLifecycle.value = None THEN <<>>
    ELSE uniqueTagsAndLifecycle.value[1].lifecycles

\* initialize: the selections the useState initialisers read from a query.
initialize(query) == [tags |-> getAll(query, "tags"), lifecycle |-> getAll(query, "lifecycle")]

\* ---- derived notions the properties use ----
loaderState(l) == IF l = "tools" THEN tools ELSE uniqueTagsAndLifecycle

\* The loader's latest call has not settled yet.
Pending(l) == \E f \in inflight : f.loader = l /\ f.callId = lastCallId[l]

\* The outcome the loader's state holds is a rejection.
Failed(l) == settled[l].outcome = "rejected"

InFlight(l) == {f \in inflight : f.loader = l}

\* ======================= properties =======================

\* C1: in every reachable state the values under the URL's 'tags' key equal the
\* selected tags and the values under its 'lifecycle' key equal the selected
\* lifecycle values.
C1_UrlMirrorsSelections ==
    /\ getAll(searchParams, "tags") = filteredTags
    /\ getAll(searchParams, "lifecycle") = filteredLifecycle

\* C2: an outcome of a superseded filtered fetch never replaces the state of the
\* filtered results loader: while the loader is not loading its state comes from
\* its latest call, while it is loading it comes from an earlier one; and once no
\* filtered fetch is in flight, the state is the outcome of the call launched with
\* the current selections, whose list is the one displayed.
C2_NoStaleOverwrite ==
    /\ (mounted /\ ~tools.loading) => settled["tools"].callId = lastCallId["tools"]
    /\ tools.loading => settled["tools"].callId < lastCallId["tools"]
    /\ (mounted /\ InFlight("tools") = {}) =>
          /\ settled["tools"].request =
                Some([tags |-> filteredTags, lifecycle |-> filteredLifecycle])
          /\ settled["tools"].outcome = "resolved" =>
                /\ tools.value = settled["tools"].result
                /\ tools.error = None
          /\ settled["tools"].outcome = "rejected" => ~Body

\* C2 witness: the outcome of a superseded filtered fetch has arrived and has been
\* dropped, no filtered fetch is left in flight and the list of the latest is shown.
C2_Witness ==
    /\ settled["tools"].stale
    /\ InFlight("tools") = {}
    /\ settled["tools"].callId = 2
    /\ Body

\* C3 (as claimed): an options fetch that fails leaves the offered tag and
\* lifecycle options as they were.
C3_OptionsSurviveFailure ==
    [][(\E f \in inflight : RejectOptions(f)) =>
          (tagOptions' = tagOptions /\ lifecycleOptions' = lifecycleOptions)]_vars

\* C3 (amended): whenever the options loader holds the outcome of a failed fetch,
\* both offered option lists are empty, whatever had been computed before; a failing
\* options fetch leaves the options as they were only when it had been superseded
\* by a later options fetch (its outcome is dropped).
C3_FailureClearsOptions ==
    /\ [](Failed("options") =>
            /\ uniqueTagsAndLifecycle.error # None
            /\ tagOptions = <<>>
            /\ lifecycleOptions = <<>>)
    /\ [][\A f \in inflight : RejectOptions(f) =>
            IF f.callId = lastCallId["options"]
            THEN tagOptions' = <<>> /\ lifecycleOptions' = <<>>
            ELSE tagOptions' = tagOptions /\ lifecycleOptions' = lifecycleOptions]_vars

\* C3 witness: the options fetch failed after an earlier one had produced options.
C3_Witness ==
    /\ Failed("options")
    /\ settled["options"].before.value # None
    /\ settled["options"].before.value[1].tags # <<>>
    /\ tagOptions = <<>>

\* C4 (as claimed): whenever the 'Failed to load tools' warning is shown, no tool
\* list is rendered.
C4_WarningExcludesList == FailedToLoadTools => ~Body

\* C4 (amended): whenever the filtered results loader holds an error, no tool list is
\* rendered, even if one had been loaded before; the warning is rendered together
\* with a list only when it is the options loader alone that failed.
C4_ToolsErrorExcludesList ==
    /\ tools.error # None => ~Body
    /\ (FailedToLoadTools /\ Body) =>
          (uniqueTagsAndLifecycle.error # None /\ tools.error = None)

\* C4 witness: the filtered fetch failed after a non-empty list had been loaded.
C4_Witness ==
    /\ tools.error # None
    /\ FailedToLoadTools
    /\ settled["tools"].before.value # None
    /\ settled["tools"].before.value[1] # <<>>
    /\ ~Body

\* C5 (as claimed): when the filtered loader's value is a fetched empty list, 'No
\* tools found' is shown and the card grid is not rendered.
C5_EmptyListNoGrid == tools.value = Some(<<>>) => (NoToolsFound /\ ~Body)

\* C5 (amended): when the filtered loader's value is a fetched empty list, 'No tools
\* found' is shown and the card grid is rendered with no card in it.
C5_EmptyListEmptyGrid ==
    tools.value = Some(<<>>) => (NoToolsFound /\ Body /\ Len(tools.value[1]) = 0)

\* C5 witness: the latest filtered fetch resolved with an empty list.
C5_Witness ==
    /\ settled["tools"].outcome = "resolved"
    /\ settled["tools"].result = Some(<<>>)
    /\ ~tools.loading
    /\ NoToolsFound

\* C6 (as claimed): for each loader at most one of loading, error present and value
\* present holds.
C6_AtMostOneOfThree ==
    \A l \in Loaders :
        /\ ~(loaderState(l).loading /\ loaderState(l).value # None)
        /\ ~(loaderState(l).loading /\ loaderState(l).error # None)
        /\ ~(loaderState(l).value # None /\ loaderState(l).error # None)

\* C6 (amended): a loader never holds a value and an error together; the loading
\* flag may be set while the previous value or the previous error is still held.
C6_NeverValueAndError ==
    \A l \in Loaders : ~(loaderState(l).value # None /\ loaderState(l).error # None)

\* C6 witness: one loader is loading again while holding the previous value, the
\* other while holding the previous error.
C6_Witness ==
    /\ tools.loading /\ tools.value # None
    /\ uniqueTagsAndLifecycle.loading /\ uniqueTagsAndLifecycle.error # None

\* C7: the progress indicator is shown exactly when the latest call of the filtered
\* loader or of the options loader has not settled, and the 'Failed to load tools'
\* warning exactly when the outcome one of the two loaders holds is a rejection.
C7_IndicatorsAreDisjunctions ==
    /\ Progress <=> (Pending("tools") \/ Pending("options"))
    /\ FailedToLoadTools <=> (Failed("tools") \/ Failed("options"))

\* C7 witness: only the options loader is pending and only the filtered loader failed.
C7_Witness ==
    /\ Pending("options") /\ ~Pending("tools")
    /\ Failed("tools") /\ ~Failed("options")
    /\ Progress /\ FailedToLoadTools

\* C8: every options fetch in flight was issued without a filter argument, and so
\* was the one whose outcome the options loader holds.
C8_OptionsFetchUnfiltered ==
    /\ \A f \in InFlight("options") : f.request = None
    /\ settled["options"].request = None

\* C8 witness: options computed from a fetch launched while both selections were
\* non-empty.
C8_Witness ==
    /\ filteredTags # <<>> /\ filteredLifecycle # <<>>
    /\ settled["options"].callId = lastCallId["options"]
    /\ settled["options"].callId > 1
    /\ settled["options"].outcome = "resolved"
    /\ tagOptions # <<>>

\* C9: every step that changes a selection launches exactly two fetches, a filtered
\* one whose filter is the new selections and an options one, and leaves both
\* loaders pending, whatever was pending or had failed before.
C9_ChangeLaunchesBoth ==
    [][(filteredTags' # filteredTags \/ filteredLifecycle' # filteredLifecycle) =>
          /\ Cardinality(inflight' \ inflight) = 2
          /\ [loader |-> "tools", callId |-> lastCallId'["tools"],
              request |-> Some([tags |-> filteredTags', lifecycle |-> filteredLifecycle'])]
                \in inflight' \ inflight
          /\ \E f \in inflight' \ inflight :
                f.loader = "options" /\ f.callId = lastCallId'["options"]
          /\ inflight \subseteq inflight'
          /\ tools'.loading /\ uniqueTagsAndLifecycle'.loading]_vars

\* C9 witness: a change made while the earlier filtered fetch was still in flight and
\* the options loader had failed: two filtered fetches with different filters and the
\* new options fetch are in flight.
C9_Witness ==
    /\ Cardinality(InFlight("tools")) = 2
    /\ \E f, g \in InFlight("tools") : f.request # g.request
    /\ Failed("options")
    /\ Pending("options")
    /\ settled["options"].callId = 1

\* C10: right after handleTagsChange(x) the URL's 'tags' values are exactly x (no
\* 'tags' key when x is empty) and initialising from that URL gives x as the
\* selected tags; likewise for handleLifecycleChange and 'lifecycle'.
C10_RoundTrip ==
    [][/\ \A x \in TagSelections : handleTagsChange(x) =>
            /\ getAll(searchParams', "tags") = x
            /\ (x = <<>> => ~has(searchParams', "tags"))
            /\ initialize(searchParams').tags = x
            /\ filteredTags' = x
       /\ \A x \in LifecycleSelections : handleLifecycleChange(x) =>
            /\ getAll(searchParams', "lifecycle") = x
            /\ (x = <<>> => ~has(searchParams', "lifecycle"))
            /\ initialize(searchParams').lifecycle = x
            /\ filteredLifecycle' = x]_vars

\* C10 witness: a two-valued tag selection has been written to the URL.
C10_Witness ==
    /\ mounted
    /\ Len(filteredTags) = 2
    /\ lastCallId["tools"] > 1
    /\ searchParams = <<<<"tags", filteredTags[1]>>, <<"tags", filteredTags[2]>>>>

\* C11: until the first effect has run, the selections are the values under the
\* URL's 'tags' and 'lifecycle' keys and no fetch has been issued; the first effect
\* issues exactly one filtered fetch, whose filter is those values.
C11_FirstFetchUsesUrl ==
    /\ [](~mounted =>
            /\ filteredTags = getAll(searchParams, "tags")
            /\ filteredLifecycle = getAll(searchParams, "lifecycle")
            /\ inflight = {}
            /\ lastCallId["tools"] = 0)
    /\ [][(~mounted /\ mounted') =>
            {f \in inflight' : f.loader = "tools"} =
                {[loader |-> "tools", callId |-> 1,
                  request |-> Some([tags |-> getAll(searchParams, "tags"),
                                    lifecycle |-> getAll(searchParams, "lifecycle")])]}]_vars

\* C11 witness: opened at ?lifecycle=experimental, the first filtered fetch is in
\* flight with that lifecycle in its filter.
C11_Witness ==
    /\ mounted
    /\ lastCallId["tools"] = 1
    /\ searchParams = <<<<"lifecycle", "experimental">>>>
    /\ filteredLifecycle = <<"experimental">>
    /\ InFlight("tools") =
          {[loader |-> "tools", callId |-> 1,
            request |-> Some([tags |-> <<>>, lifecycle |-> <<"experimental">>])]}

\* The positions <<tool index, index in its tags>> of the tags of a list.
TagPositions(list) ==
    UNION {{<<i, k>> : k \in 1..Len(list[i].tags[1])} :
             i \in {j \in 1..Len(list) : list[j].tags # None}}

\* Where the value v occurs among the tools' tags.
TagOccurrences(list, v) == {p \in TagPositions(list) : list[p[1]].tags[1][p[2]] = v}

TagsOf(list) == {list[p[1]].tags[1][p[2]] : p \in TagPositions(list)}

\* p comes before q in the flattened order.
Earlier(p, q) == p[1] < q[1] \/ (p[1] = q[1] /\ p[2] < q[2])

FirstTagOccurrence(list, v) ==
    CHOOSE p \in TagOccurrences(list, v) :
        \A q \in TagOccurrences(list, v) : p = q \/ Earlier(p, q)

\* Where the lifecycle v occurs: the indexes of the tools that carry it.
LifecycleOccurrences(list, v) ==
    {i \in 1..Len(list) : list[i].lifecycle = Some(v)}

LifecyclesOf(list) ==
    {list[i].lifecycle[1] : i \in {j \in 1..Len(list) : list[j].lifecycle # None}}

FirstLifecycleOccurrence(list, v) ==
    CHOOSE i \in LifecycleOccurrences(list, v) :
        \A j \in LifecycleOccurrences(list, v) : i <= j

\* C12: the options an options fetch computes from the list it was answered with:
\* the tag options are exactly the tags occurring in the list, each once, ordered by
\* first occurrence in the flattened tags; the lifecycle options are exactly the
\* lifecycles of the tools that have one, each once, ordered by first occurrence;
\* and these are the options the widgets offer.
C12_OptionsAreFirstOccurrences ==
    (settled["options"].outcome = "resolved" /\ settled["options"].response # None) =>
        LET list == settled["options"].response[1]
            out == settled["options"].result[1]
        IN  /\ uniqueTagsAndLifecycle.value = Some(out)
            /\ tagOptions = out.tags
            /\ lifecycleOptions = out.lifecycles
            /\ {out.tags[i] : i \in 1..Len(out.tags)} = TagsOf(list)
            /\ \A i, j \in 1..Len(out.tags) : i < j =>
                  /\ out.tags[i] # out.tags[j]
                  /\ Earlier(FirstTagOccurrence(list, out.tags[i]),
                             FirstTagOccurrence(list, out.tags[j]))
            /\ {out.lifecycles[i] : i \in 1..Len(out.lifecycles)} = LifecyclesOf(list)
            /\ \A i, j \in 1..Len(out.lifecycles) : i < j =>
                  /\ out.lifecycles[i] # out.lifecycles[j]
                  /\ FirstLifecycleOccurrence(list, out.lifecycles[i])
                        < FirstLifecycleOccurrence(list, out.lifecycles[j])

\* C12 witness: a list whose second tool repeats a tag of the first in another order
\* and whose first tool has no lifecycle: the repeated tag is offered once, in the
\* place of its first occurrence.
C12_Witness ==
    /\ settled["options"].outcome = "resolved"
    /\ settled["options"].response =
          Some(<<[title |-> "Tool", tags |-> Some(<<"web">>), lifecycle |-> None],
                 [title |-> "Tool", tags |-> Some(<<"seo", "web">>),
                  lifecycle |-> Some("production")]>>)
    /\ tagOptions = <<"web", "seo">>
    /\ lifecycleOptions = <<"production">>

\* C13: no step changes the number of history entries; a step that changes the
\* history changes its current (last) entry only.
C13_HistoryLengthUnchanged ==
    [][/\ Len(history') = Len(history)
       /\ \A i \in 1..(Len(history) - 1) : history'[i] = history[i]]_vars

\* C13 witness: a handler has rewritten the URL (the selected lifecycle is no longer
\* in it) and the history still has its one entry.
C13_Witness ==
    /\ lastCallId["tools"] = 2
    /\ filteredTags = <<"web", "seo">>
    /\ filteredLifecycle = <<"experimental">>
    /\ history = <<<<<<"tags", "web">>, <<"tags", "seo">>>>>>

\* The step settles the latest call of the filtered loader.
LatestToolsSettles ==
    \E f \in InFlight("tools") : f.callId = lastCallId["tools"] /\ f \notin inflight'

\* C14 (as claimed): a held tool list stays the filtered loader's value until the
\* latest filtered fetch settles, and it is removed (no value left) only by a failure.
C14_RemovedOnlyByFailure ==
    [][(tools.value # None /\ tools'.value # tools.value) =>
          /\ LatestToolsSettles
          /\ tools'.value = None => tools'.error # None]_vars

\* C14 (amended): while a filtered fetch is pending after an earlier one succeeded the
\* list loaded before stays the loader's value and stays rendered; the value changes
\* only in the step that settles the latest filtered fetch, and no value is left only
\* when that fetch failed or was answered without a tools list.
C14_ListRetainedWhilePending ==
    /\ []((tools.loading /\ settled["tools"].outcome = "resolved") =>
            /\ tools.value = settled["tools"].result
            /\ tools.value # None => (Body /\ tools.error = None))
    /\ [][(tools.value # None /\ tools'.value # tools.value) =>
            /\ LatestToolsSettles
            /\ tools'.value = None =>
                  \/ tools'.error # None
                  \/ (settled'["tools"].outcome = "resolved"
                      /\ settled'["tools"].response = None)]_vars

\* C14 witness: the second filtered fetch is pending and the list the first one
\* loaded is still rendered.
C14_Witness ==
    /\ tools.loading
    /\ Pending("tools")
    /\ lastCallId["tools"] = 2
    /\ settled["tools"].callId = 1
    /\ tools.value = Some(<<WebTool, ExperimentalTool>>)
    /\ Body

\* The step settles (resolves or rejects) a fetch of loader l.
Settles(l) == \E f \in InFlight(l) : f \notin inflight'

\* C15: a step that settles a filtered fetch leaves the options loader's state, the
\* offered options and the options fetches in flight as they were, and a step that
\* settles an options fetch leaves the filtered loader's state, the rendered list and
\* the filtered fetches in flight as they were.
C15_LoadersIndependent ==
    [][/\ Settles("tools") =>
            /\ uniqueTagsAndLifecycle' = uniqueTagsAndLifecycle
            /\ tagOptions' = tagOptions /\ lifecycleOptions' = lifecycleOptions
            /\ {f \in inflight' : f.loader = "options"} = InFlight("options")
            /\ lastCallId'["options"] = lastCallId["options"]
       /\ Settles("options") =>
            /\ tools' = tools
            /\ Body' = Body /\ NoToolsFound' = NoToolsFound
            /\ {f \in inflight' : f.loader = "tools"} = InFlight("tools")
            /\ lastCallId'["tools"] = lastCallId["tools"]]_vars

\* C15 witness: the latest filtered fetch has failed while the options loader is
\* still pending and still holds the options computed before.
C15_Witness ==
    /\ Failed("tools") /\ settled["tools"].callId = 2 /\ ~tools.loading
    /\ Pending("options")
    /\ uniqueTagsAndLifecycle.loading
    /\ uniqueTagsAndLifecycle.error = None
    /\ tagOptions = <<"web", "seo">>

\* The step is a call of one of the two change handlers.
HandlerStep ==
    \/ \E x \in TagSelections : handleTagsChange(x)
    \/ \E x \in LifecycleSelections : handleLifecycleChange(x)

\* C16: a step that changes the selected tags, the selected lifecycle values or the
\* history is a handleTagsChange or handleLifecycleChange step; the first effect
\* (which launches the first fetches) and every settlement of a fetch leave all
\* three unchanged.
C16_OnlyHandlersChangeSelections ==
    [][/\ (filteredTags' # filteredTags \/ filteredLifecycle' # filteredLifecycle
           \/ history' # history) => HandlerStep
       /\ ((~mounted /\ mounted') \/ Settles("tools") \/ Settles("options")) =>
            /\ filteredTags' = filteredTags
            /\ filteredLifecycle' = filteredLifecycle
            /\ history' = history]_vars

\* C16 witness: the first fetches were launched and have settled, one resolved and
\* one rejected, and the selections and the URL are those the view was opened with.
C16_Witness ==
    /\ mounted
    /\ lastCallId["tools"] = 1
    /\ inflight = {}
    /\ settled["tools"].outcome = "resolved"
    /\ Failed("options")
    /\ filteredTags = <<"seo">>
    /\ filteredLifecycle = <<"experimental">>
    /\ searchParams = <<<<"tags", "seo">>, <<"lifecycle", "experimental">>>>

\* C17: a fetch appears in flight only in the first effect's step or in a handler
\* step; a step that settles a fetch launches none; a handler step launches a new
\* fetch of each loader, also of a loader that had failed; and a loader whose state
\* is the outcome of a resolved fetch holds no error.
C17_NoAutomaticRetry ==
    /\ [](\A l \in Loaders :
            settled[l].outcome = "resolved" => loaderState(l).error = None)
    /\ [][/\ (inflight' \ inflight # {}) => ((~mounted /\ mounted') \/ HandlerStep)
          /\ (Settles("tools") \/ Settles("options")) =>
                /\ inflight' \subseteq inflight
                /\ lastCallId' = lastCallId
          /\ HandlerStep =>
                \A l \in Loaders :
                    /\ lastCallId'[l] = lastCallId[l] + 1
                    /\ \E f \in inflight' \ inflight :
                          f.loader = l /\ f.callId = lastCallId'[l]]_vars

\* C17 witness: the first filtered fetch failed, nothing was relaunched until the
\* filter change, and the fetch that change launched resolved and cleared the error.
C17_Witness ==
    /\ settled["tools"].callId = 2
    /\ settled["tools"].outcome = "resolved"
    /\ settled["tools"].before.error # None
    /\ tools.error = None
    /\ ~tools.loading
    /\ InFlight("tools") = {}

\* Trigger coordination's Ready: the first fetches were launched and neither loader
\* is loading, so the progress indicator is off.
Ready ==
    /\ mounted
    /\ ~tools.loading
    /\ ~uniqueTagsAndLifecycle.loading
    /\ ~Progress

\* C18: when every launched fetch eventually settles, the view reaches Ready again
\* and again (after each of the finitely many filter changes); so neither loader
\* stays loading for ever, whichever of its fetches were superseded.
C18_EventuallyReady == []<>Ready

\* C18 witness: Ready after a filter change that superseded fetches of both loaders,
\* whose late outcomes were dropped.
C18_Witness ==
    /\ Ready
    /\ inflight = {}
    /\ lastCallId["tools"] = 2
    /\ settled["tools"].stale
    /\ settled["options"].stale

====
